---- MODULE Spec2Model ----
(***************************************************************************)
(* Credential manager: the lock annotation protocol between the pre-deploy *)
(* hook (PrepareOldCreds), the operator (ActualizeCreds) and the secret    *)
(* watcher (credsUpdFunc), over a Kubernetes-like object store.            *)
(*                                                                         *)
(* A secret is a record                                                    *)
(*   data    the Data map, a function from a set of field names to values  *)
(*   lock    the value of Annotations[LockLabel], "" when it is absent     *)
(*   labels  the Labels of the object, abstracted to one string            *)
(*   owners  the OwnerReferences of the object, abstracted to one string   *)
(*   rv      the resourceVersion; 0 is the empty resourceVersion of an     *)
(*           object that was built in memory or of a failed Get            *)
(***************************************************************************)
EXTENDS Integers, Sequences, FiniteSets, TLC

VARIABLES
    store,      \* object name -> secret; rv = 0 when the object does not exist
    producer,   \* the external credential producer: the number of its writes
                \* so far and the data maps it writes
    ac,         \* the operator's ActualizeCreds call: locals and position
    obs,        \* observer of the current or last ActualizeCreds call: what it
                \* did and returned, and the store it started from
    hook,       \* the pre-deploy hook's PrepareOldCreds run: locals and position
    watch,      \* the watchers: undelivered update events, informer cache,
                \* callbacks; the registry activeWatchers with its mutex, the
                \* callers of Watch and the watcher tasks
    mgr,        \* the operator's last call of AreCredsChanged or
                \* AddCredHashToPodTemplate: its arguments and results
    owner       \* the operator's SetOwnerRefForSecretCopies call: locals and
                \* position

vars == <<store, producer, ac, obs, hook, watch, mgr, owner>>

----------------------------------------------------------------------------
(* Bounds of the model *)

\* The number of operations that are started in a run: writes of the producer,
\* calls of ActualizeCreds and runs of the hook.
MaxOps == 4

----------------------------------------------------------------------------
(* Data *)

Names == {"creds", "token"}

Fields == {"password"}

Values == {"p1", "p2"}

DataMaps == UNION {[D -> Values] : D \in SUBSET Fields}

GetOldSecretName(secretName) == secretName \o "-old"

ObjNames == Names \cup {GetOldSecretName(n) : n \in Names}

\* The names the deployment is configured with (SECRET_NAMES): the hook's run
\* gets them as its argument and the operator actualizes them.
GetSecretNames == {hook.secrets[i] : i \in DOMAIN hook.secrets}

\* The zero value &corev1.Secret{}.
EmptySecret ==
    [data |-> [f \in {} |-> ""], lock |-> "", labels |-> "", owners |-> "", rv |-> 0]

\* string(secret.Data[fieldName]): a missing key reads as the empty string.
FieldValue(secret, fieldName) ==
    IF fieldName \in DOMAIN secret.data THEN secret.data[fieldName] ELSE ""

AreFieldsChanged(oldSecret, newSecret) ==
    \E fieldName \in DOMAIN newSecret.data :
        FieldValue(oldSecret, fieldName) # FieldValue(newSecret, fieldName)

----------------------------------------------------------------------------
(* The object store: Get, Create, Update of the Kubernetes client *)

Exists_(s, name) == s[name].rv # 0

Exists(name) == Exists_(store, name)

GetOutcomes(name) ==
    {"StoreError"} \cup {IF Exists(name) THEN "nil" ELSE "NotFound"}

CreateOutcomes(name) ==
    {"StoreError"} \cup {IF Exists(name) THEN "AlreadyExists" ELSE "nil"}

\* An Update that carries a resourceVersion is refused when the stored object
\* has moved on; one that carries none replaces the object unconditionally.
UpdateOutcomes(name, obj) ==
    {"StoreError"} \cup
    {IF ~Exists(name) THEN "NotFound"
     ELSE IF obj.rv # 0 /\ obj.rv # store[name].rv THEN "Conflict"
     ELSE "nil"}

\* The object the store holds after a successful Create or Update of obj.
\* A write that changes nothing leaves the resourceVersion as it is.
Written(name, obj) ==
    IF Exists(name) /\ [obj EXCEPT !.rv = store[name].rv] = store[name]
    THEN store[name]
    ELSE [obj EXCEPT !.rv = store[name].rv + 1]

\* A successful write: the store takes the object, and a change of an existing
\* live secret is queued as an update event for its watcher, if it has one.
Commit(name, obj) ==
    /\ store' = [store EXCEPT ![name] = Written(name, obj)]
    /\ watch' = IF /\ name \in Names
                   /\ watch.active[name]
                   /\ Exists(name)
                   /\ Written(name, obj) # store[name]
                THEN [watch EXCEPT !.events[name] = Append(@, Written(name, obj))]
                ELSE watch

\* The store before any object exists.
NoStore == [n \in ObjNames |-> EmptySecret]

\* What the observer keeps of an earlier ActualizeCreds call.
NoCall == [err |-> "nil", trace |-> <<>>]

\* A write by somebody else than the operator's ActualizeCreds. The observer
\* compares undisturbed calls only: of a running call it keeps the trace, and
\* of a call that has ended nothing.
Foreign ==
    IF ac.pc = "idle"
    THEN [calls |-> obs.calls, trace |-> <<>>, args |-> <<>>, changed |-> FALSE,
          start |-> NoStore, foreign |-> TRUE, prev |-> NoCall, err |-> "nil"]
    ELSE [obs EXCEPT !.foreign = TRUE, !.start = NoStore, !.args = <<>>,
                     !.prev = NoCall]

\* Operations started so far.
Ops == producer.writes + obs.calls + hook.runs + watch.calls + owner.calls

----------------------------------------------------------------------------
(* The external credential producer rewrites the data of a live secret. *)

ProducerUpdate ==
    /\ Ops < MaxOps
    /\ \E n \in Names, d \in producer.maps :
        /\ Exists(n)
        /\ d # store[n].data
        /\ Commit(n, [store[n] EXCEPT !.data = d])
    /\ producer' = [producer EXCEPT !.writes = @ + 1]
    /\ obs' = Foreign
    /\ UNCHANGED <<ac, hook, mgr, owner>>

----------------------------------------------------------------------------
(* manager.ActualizeCreds(secretName, changeCredsFunc), one store request or *)
(* one callback per step                                                     *)

\* What the trace of a call records: the callback and the write requests.
Did(op, err) == [op |-> op, err |-> err]

\* Mutant of NewOldSecret: the new shadow is created without the Data.
NewOldSecretWithoutData(newSecret) == EmptySecret

\* getNewSecret(oldSecretName) with Data taken from the live secret.
NewOldSecret(newSecret) == [EmptySecret EXCEPT !.data = newSecret.data]

\* Mutant of UpdatedOldSecret: the shadow is written back as it was read.
UpdatedOldSecretKeepingData(oldSecret, newSecret) == oldSecret

\* oldSecret.Data = newSecret.Data before updateSecret(oldSecret).
UpdatedOldSecret(oldSecret, newSecret) == [oldSecret EXCEPT !.data = newSecret.data]

\* Mutant of Unlocked: the object is sent without its resourceVersion.
UnlockedWithoutVersion(secret) == [secret EXCEPT !.lock = "false", !.rv = 0]

\* Mutant of Unlocked: the annotation is left as it was read.
UnlockedKeepingLock(secret) == secret

\* secret.Annotations[lockLabel] = "false" in unlockSecret.
Unlocked(secret) == [secret EXCEPT !.lock = "false"]

\* The call has ended; its locals are gone.
Finish(a) ==
    [pc |-> "idle", secretName |-> a.secretName, newSecret |-> EmptySecret,
     oldSecret |-> EmptySecret, secret |-> EmptySecret]

\* Mutant of Return: the deferred function unlocks without looking at err.
ReturnAlwaysUnlocks(a, e) == [Finish(a) EXCEPT !.pc = "unlockGet"]

\* Mutant of Return: not-found counts as success for the deferred function.
ReturnUnlocksOnNotFound(a, e) ==
    IF e \in {"nil", "NotFound"} THEN [Finish(a) EXCEPT !.pc = "unlockGet"]
    ELSE Finish(a)

\* A return from the body with error e: the deferred function runs unlockSecret
\* when e is nil, and otherwise the call ends with e.
Return(a, e) ==
    IF e = "nil" THEN [Finish(a) EXCEPT !.pc = "unlockGet"]
    ELSE Finish(a)

\* The error the caller gets when the call has ended, "nil" until then.
Returned(a, e) == IF a.pc = "idle" THEN e ELSE "nil"

\* After utils.AreFieldsChanged: return when nothing changed, else migrate.
Compared(a, changed) ==
    IF changed THEN [a EXCEPT !.pc = "migrate"] ELSE Return(a, "nil")

\* Mutant of Migrated: the error of changeCredsFunc is not looked at.
MigratedIgnoringError(a, e) == [a EXCEPT !.pc = "updateOld"]

\* After changeCredsFunc: return its error, else go on to update the shadow.
Migrated(a, e) ==
    IF e # "nil" THEN Return(a, e) ELSE [a EXCEPT !.pc = "updateOld"]

ActualizeCreds ==
    /\ ac.pc = "idle"
    /\ Ops < MaxOps
    /\ \E n \in GetSecretNames :
        ac' = [pc |-> "getNew", secretName |-> n, newSecret |-> EmptySecret,
               oldSecret |-> EmptySecret, secret |-> EmptySecret]
    /\ obs' = [calls |-> obs.calls + 1, trace |-> <<>>, args |-> <<>>,
               changed |-> FALSE, start |-> store, foreign |-> FALSE,
               prev |-> IF obs.calls = 0 \/ obs.foreign THEN NoCall
                        ELSE [err |-> obs.err, trace |-> obs.trace],
               err |-> "nil"]
    /\ UNCHANGED <<store, producer, hook, watch, mgr, owner>>

\* The caller calls ActualizeCreds again for the same secret after a call that
\* returned an error. Retries are not counted as operations started: there
\* are as many as there are failures.
ActualizeCreds_Retry ==
    /\ ac.pc = "idle"
    /\ obs.calls > 0
    /\ obs.err # "nil"
    /\ ac' = [pc |-> "getNew", secretName |-> ac.secretName, newSecret |-> EmptySecret,
              oldSecret |-> EmptySecret, secret |-> EmptySecret]
    /\ obs' = [calls |-> obs.calls, trace |-> <<>>, args |-> <<>>,
               changed |-> FALSE, start |-> store, foreign |-> FALSE,
               prev |-> IF obs.foreign THEN NoCall
                        ELSE [err |-> obs.err, trace |-> obs.trace],
               err |-> "nil"]
    /\ UNCHANGED <<store, producer, hook, watch, mgr, owner>>

AC_GetNewSecret ==
    /\ ac.pc = "getNew"
    /\ \E e \in GetOutcomes(ac.secretName) :
        /\ ac' = IF e = "nil"
                 THEN [ac EXCEPT !.newSecret = store[ac.secretName], !.pc = "getOld"]
                 ELSE Return(ac, e)
        /\ obs' = [obs EXCEPT !.err = Returned(ac', e)]
    /\ UNCHANGED <<store, producer, hook, watch, mgr, owner>>

AC_GetOldSecret ==
    /\ ac.pc = "getOld"
    /\ LET oldSecretName == GetOldSecretName(ac.secretName) IN
       \E e \in GetOutcomes(oldSecretName) :
        IF e = "NotFound" THEN
            /\ ac' = [ac EXCEPT !.pc = "createOld"]
            /\ obs' = obs
        ELSE IF e = "nil" THEN
            LET changed == AreFieldsChanged(store[oldSecretName], ac.newSecret) IN
            /\ ac' = Compared([ac EXCEPT !.oldSecret = store[oldSecretName]], changed)
            /\ obs' = [obs EXCEPT !.changed = changed]
        ELSE
            /\ ac' = Return(ac, e)
            /\ obs' = [obs EXCEPT !.err = Returned(ac', e)]
    /\ UNCHANGED <<store, producer, hook, watch, mgr, owner>>

AC_CreateOldSecret ==
    /\ ac.pc = "createOld"
    /\ LET oldSecretName == GetOldSecretName(ac.secretName) IN
       \E e \in CreateOutcomes(oldSecretName) :
        /\ IF e = "nil" THEN Commit(oldSecretName, NewOldSecret(ac.newSecret))
           ELSE UNCHANGED <<store, watch>>
        /\ ac' = Return(ac, e)
        /\ obs' = [obs EXCEPT !.trace = Append(@, Did("createShadow", e)),
                              !.err = Returned(ac', e)]
    /\ UNCHANGED <<producer, hook, mgr, owner>>

AC_Migrate ==
    /\ ac.pc = "migrate"
    /\ \E e \in {"nil", "MigrationError"} :
        /\ ac' = Migrated(ac, e)
        /\ obs' = [obs EXCEPT !.trace = Append(@, Did("migrate", e)),
                              !.args = Append(@, <<ac.newSecret, ac.oldSecret>>),
                              !.err = Returned(ac', e)]
    /\ UNCHANGED <<store, producer, hook, watch, mgr, owner>>

AC_UpdateOldSecret ==
    /\ ac.pc = "updateOld"
    /\ LET oldSecretName == GetOldSecretName(ac.secretName)
           obj == UpdatedOldSecret(ac.oldSecret, ac.newSecret) IN
       \E e \in UpdateOutcomes(oldSecretName, obj) :
        /\ IF e = "nil" THEN Commit(oldSecretName, obj)
           ELSE UNCHANGED <<store, watch>>
        /\ ac' = Return(ac, e)
        /\ obs' = [obs EXCEPT !.trace = Append(@, Did("updateShadow", e)),
                              !.err = Returned(ac', e)]
    /\ UNCHANGED <<producer, hook, mgr, owner>>

AC_UnlockGet ==
    /\ ac.pc = "unlockGet"
    /\ \E e \in GetOutcomes(ac.secretName) :
        /\ ac' = IF e = "nil"
                 THEN [ac EXCEPT !.secret = store[ac.secretName], !.pc = "unlockUpdate"]
                 ELSE Finish(ac)
        /\ obs' = [obs EXCEPT !.err = Returned(ac', e)]
    /\ UNCHANGED <<store, producer, hook, watch, mgr, owner>>

AC_UnlockUpdate ==
    /\ ac.pc = "unlockUpdate"
    /\ LET obj == Unlocked(ac.secret) IN
       \E e \in UpdateOutcomes(ac.secretName, obj) :
        /\ IF e = "nil" THEN Commit(ac.secretName, obj)
           ELSE UNCHANGED <<store, watch>>
        /\ ac' = Finish(ac)
        /\ obs' = [obs EXCEPT !.trace = Append(@, Did("unlock", e)),
                              !.err = Returned(ac', e)]
    /\ UNCHANGED <<producer, hook, mgr, owner>>

----------------------------------------------------------------------------
(* hook.PrepareOldCreds(secrets), one store request per step; a panic ends *)
(* the run                                                                  *)

\* The secrets argument of the run.
HookSecrets == hook.secrets

\* commonLabels(name), abstracted to one value.
CommonLabels == "managed-by"

\* oldSecret(oldSecretName): a new object with the common labels.
oldSecretObject == [EmptySecret EXCEPT !.labels = CommonLabels]

\* oldSecret.Data = newSecret.Data; oldSecret.Labels = newSecret.Labels
HookOldSecret(newSecret) ==
    [oldSecretObject EXCEPT !.data = newSecret.data, !.labels = newSecret.labels]

\* Mutant of isSecretLocked: the annotation is not looked at.
isSecretLockedNever(secret) == FALSE

isSecretLocked(secret) == secret.lock = "true"

\* newSecret.Annotations[utils.LockLabel] = "true"
Locked(secret) == [secret EXCEPT !.lock = "true"]

\* `continue` and the end of the loop body: the next name, or the end of the run.
Continue(h) ==
    IF h.i < Len(HookSecrets)
    THEN [h EXCEPT !.i = h.i + 1, !.pc = "get", !.newSecret = EmptySecret,
                   !.isSecretExist = FALSE]
    ELSE [h EXCEPT !.i = 1, !.pc = "idle", !.newSecret = EmptySecret,
                   !.isSecretExist = FALSE]

\* panic(err): the run is over.
Panic(h) ==
    [h EXCEPT !.i = 1, !.pc = "idle", !.newSecret = EmptySecret,
              !.isSecretExist = FALSE]

PrepareOldCreds ==
    /\ hook.pc = "idle"
    /\ Ops < MaxOps
    /\ HookSecrets # <<>>
    /\ hook' = [hook EXCEPT !.pc = "get", !.i = 1, !.newSecret = EmptySecret,
                             !.isSecretExist = FALSE, !.runs = hook.runs + 1]
    /\ UNCHANGED <<store, producer, ac, obs, watch, mgr, owner>>

Hook_GetNewSecret ==
    /\ hook.pc = "get"
    /\ LET secretName == HookSecrets[hook.i] IN
       \E e \in GetOutcomes(secretName) :
        hook' = IF e = "NotFound" THEN Continue(hook)
                ELSE IF e # "nil" THEN Panic(hook)
                ELSE IF isSecretLocked(store[secretName]) THEN Continue(hook)
                ELSE [hook EXCEPT !.newSecret = store[secretName], !.pc = "exist"]
    /\ UNCHANGED <<store, producer, ac, obs, watch, mgr, owner>>

Hook_IsSecretExist ==
    /\ hook.pc = "exist"
    /\ LET oldSecretName == GetOldSecretName(HookSecrets[hook.i]) IN
       \E e \in GetOutcomes(oldSecretName) :
        hook' = IF e = "StoreError" THEN Panic(hook)
                ELSE [hook EXCEPT !.isSecretExist = (e = "nil"), !.pc = "writeOld"]
    /\ UNCHANGED <<store, producer, ac, obs, watch, mgr, owner>>

Hook_WriteOldSecret ==
    /\ hook.pc = "writeOld"
    /\ LET oldSecretName == GetOldSecretName(HookSecrets[hook.i])
           obj == HookOldSecret(hook.newSecret) IN
       \E e \in (IF hook.isSecretExist THEN UpdateOutcomes(oldSecretName, obj)
                 ELSE CreateOutcomes(oldSecretName)) :
        IF e = "nil" THEN
            /\ Commit(oldSecretName, obj)
            /\ hook' = [hook EXCEPT !.pc = "lock"]
            /\ obs' = Foreign
        ELSE
            /\ hook' = Panic(hook)
            /\ UNCHANGED <<store, watch, obs>>
    /\ UNCHANGED <<producer, ac, mgr, owner>>

Hook_LockSecret ==
    /\ hook.pc = "lock"
    /\ LET secretName == HookSecrets[hook.i]
           obj == Locked(hook.newSecret) IN
       \E e \in UpdateOutcomes(secretName, obj) :
        IF e = "nil" THEN
            /\ Commit(secretName, obj)
            /\ hook' = Continue(hook)
            /\ obs' = Foreign
        ELSE
            /\ hook' = Panic(hook)
            /\ UNCHANGED <<store, watch, obs>>
    /\ UNCHANGED <<producer, ac, mgr, owner>>

----------------------------------------------------------------------------
(* informer: the watcher of a live secret handles its update events in order *)

\* Mutant of credsUpdFunc: the check of the old object's lock is missing.
credsUpdFuncWithoutUnlockCheck(oldSecret, newSecret) ==
    IF newSecret.lock = "true" THEN FALSE
    ELSE AreFieldsChanged(oldSecret, newSecret)

\* Watcher.credsUpdFunc(oldObj, newObj): TRUE when it calls w.reconcileFunc().
credsUpdFunc(oldSecret, newSecret) ==
    IF newSecret.lock = "true" THEN FALSE
    ELSE IF oldSecret.lock = "true" THEN FALSE
    ELSE AreFieldsChanged(oldSecret, newSecret)

\* The informer hands the next update event (its cached object, the new
\* object) to the UpdateFunc handler. watch.log keeps the events handled and
\* whether the handler called reconcileFunc.
Informer_Update ==
    /\ \E n \in Names :
        /\ watch.events[n] # <<>>
        /\ LET oldObj == watch.cache[n]
               newObj == Head(watch.events[n]) IN
           watch' = [watch EXCEPT !.events[n] = Tail(@),
                                  !.cache[n] = newObj,
                                  !.reconciles =
                                      IF credsUpdFunc(oldObj, newObj) THEN @ + 1 ELSE @,
                                  !.log = Append(@,
                                      [oldObj |-> oldObj, newObj |-> newObj,
                                       fired |-> credsUpdFunc(oldObj, newObj)])]
    /\ UNCHANGED <<store, producer, ac, obs, hook, mgr, owner>>

\* The informer's watch broke and it lists again (ListFunc): the changes it
\* has not handled yet reach it as one update to the object as it is now.
Informer_Relist ==
    /\ \E n \in Names :
        /\ Len(watch.events[n]) >= 2
        /\ watch' = [watch EXCEPT !.events[n] = <<store[n]>>]
    /\ UNCHANGED <<store, producer, ac, obs, hook, mgr, owner>>

----------------------------------------------------------------------------
(* informer.Watch(secretNames, reconcileFunc): the registry activeWatchers, *)
(* its mutex, and the watcher tasks started with `go watcher.Start()`       *)

\* The goroutines that call Watch.
Callers == {"c1", "c2"}

\* The reconcileFunc arguments: two functions and nil.
ReconcileFuncs == {"nil", "f", "g"}

\* The secretNames arguments: no name, one name, two names, one name twice.
NameLists ==
    {<<>>} \cup {<<n>> : n \in Names} \cup {<<"creds", "token">>, <<"creds", "creds">>}

\* activeWatchers[secretName] of a name that has no entry: the nil *Watcher.
NoWatcher == [id |-> 0, reconcileFunc |-> "nil"]

\* A caller that is not in Watch and has not called it yet.
NoWatch ==
    [pc |-> "idle", secretNames |-> <<>>, reconcileFunc |-> "nil", i |-> 1,
     watcher |-> NoWatcher, err |-> "nil", returned |-> FALSE, entry |-> {}]

\* The names that have an entry in activeWatchers.
Registered == {n \in Names : watch.activeWatchers[n] # NoWatcher}

\* Mutant of MutexFree: Watch does not take the mutex.
MutexIgnored(mutex) == TRUE

\* mutex.Lock() goes on when nobody holds the mutex.
MutexFree(mutex) == mutex = ""

\* return err, or the return nil after the loop; the deferred mutex.Unlock()
\* is the step that follows.
WatchReturn(w, e) ==
    [w EXCEPT !.err = e, !.pc = "unlock", !.watcher = NoWatcher, !.i = 1]

\* newWatcher(secretName, reconcileFunc): the error for a nil reconcileFunc,
\* else a new Watcher with its own informer, the id-th one for its name.
newWatcher(id, reconcileFunc) ==
    IF reconcileFunc = "nil"
    THEN [err |-> "NoReconcileFunc", watcher |-> NoWatcher]
    ELSE [err |-> "nil", watcher |-> [id |-> id, reconcileFunc |-> reconcileFunc]]

\* A goroutine calls Watch(secretNames, reconcileFunc).
Watch(c) ==
    /\ watch.callers[c].pc = "idle"
    /\ Ops < MaxOps
    /\ \E secretNames \in NameLists, reconcileFunc \in ReconcileFuncs :
        watch' = [watch EXCEPT
            !.calls = @ + 1,
            !.callers[c] = [NoWatch EXCEPT !.pc = "lock",
                                           !.secretNames = secretNames,
                                           !.reconcileFunc = reconcileFunc]]
    /\ UNCHANGED <<store, producer, ac, obs, hook, mgr, owner>>

\* mutex.Lock(); entry keeps the names that are registered at this moment.
Watch_Lock(c) ==
    /\ watch.callers[c].pc = "lock"
    /\ MutexFree(watch.mutex)
    /\ watch' = [watch EXCEPT !.mutex = c,
                              !.callers[c].pc = "loop",
                              !.callers[c].entry = Registered]
    /\ UNCHANGED <<store, producer, ac, obs, hook, mgr, owner>>

\* The head of the loop body: watcher := activeWatchers[secretName], and
\* newWatcher when it is nil; after the last name, return nil.
Watch_Lookup(c) ==
    /\ watch.callers[c].pc = "loop"
    /\ LET w == watch.callers[c] IN
       IF w.i > Len(w.secretNames) THEN
           watch' = [watch EXCEPT !.callers[c] = WatchReturn(w, "nil")]
       ELSE
           LET secretName == w.secretNames[w.i]
               made == newWatcher(watch.created[secretName] + 1, w.reconcileFunc) IN
           IF watch.activeWatchers[secretName] # NoWatcher THEN
               watch' = [watch EXCEPT !.callers[c].i = w.i + 1]
           ELSE IF made.err # "nil" THEN
               watch' = [watch EXCEPT !.callers[c] = WatchReturn(w, made.err)]
           ELSE
               watch' = [watch EXCEPT !.created[secretName] = @ + 1,
                                      !.callers[c].watcher = made.watcher,
                                      !.callers[c].pc = "register"]
    /\ UNCHANGED <<store, producer, ac, obs, hook, mgr, owner>>

\* activeWatchers[secretName] = watcher
Watch_Register(c) ==
    /\ watch.callers[c].pc = "register"
    /\ LET w == watch.callers[c] IN
       watch' = [watch EXCEPT !.activeWatchers[w.secretNames[w.i]] = w.watcher,
                              !.callers[c].pc = "start"]
    /\ UNCHANGED <<store, producer, ac, obs, hook, mgr, owner>>

\* go watcher.Start(): a new task for the watcher; then the next name.
Watch_Start(c) ==
    /\ watch.callers[c].pc = "start"
    /\ LET w == watch.callers[c] IN
       watch' = [watch EXCEPT
            !.tasks = @ \cup {[secretName |-> w.secretNames[w.i],
                               watcher |-> w.watcher, pc |-> "start"]},
            !.callers[c].i = w.i + 1,
            !.callers[c].watcher = NoWatcher,
            !.callers[c].pc = "loop"]
    /\ UNCHANGED <<store, producer, ac, obs, hook, mgr, owner>>

\* The deferred mutex.Unlock(), and Watch has returned.
Watch_Unlock(c) ==
    /\ watch.callers[c].pc = "unlock"
    /\ watch' = [watch EXCEPT !.mutex = "",
                              !.callers[c].pc = "idle",
                              !.callers[c].returned = TRUE]
    /\ UNCHANGED <<store, producer, ac, obs, hook, mgr, owner>>

\* Watcher.Start in its task: w.informer.Run(stopCh) lists the secret and
\* watches it from then on. A task is at "start" (started with go), "run"
\* (in informer.Run), at "lock", "delete" or "unlock" of the deferred
\* function, or "ended".
Start_Run ==
    /\ \E t \in watch.tasks :
        /\ t.pc = "start"
        /\ watch' = [watch EXCEPT
                !.tasks = (@ \ {t}) \cup {[t EXCEPT !.pc = "run"]},
                !.active[t.secretName] = TRUE,
                !.cache[t.secretName] = store[t.secretName]]
    /\ UNCHANGED <<store, producer, ac, obs, hook, mgr, owner>>

\* w.informer.Run(stopCh) returns: the informer has stopped, it hands no more
\* events to the handler, and the deferred function of Start is next. Nothing
\* in this package closes stopCh before that, so the return is an event of
\* the informer.
Start_RunReturns ==
    /\ \E t \in watch.tasks :
        /\ t.pc = "run"
        /\ watch' = [watch EXCEPT
                !.tasks = (@ \ {t}) \cup {[t EXCEPT !.pc = "lock"]},
                !.active[t.secretName] = FALSE,
                !.events[t.secretName] = <<>>]
    /\ UNCHANGED <<store, producer, ac, obs, hook, mgr, owner>>

\* The mutex is held by the deferred function of a task.
StartHolds == "Start"

\* mutex.Lock() in the deferred function of Start.
Start_Lock ==
    /\ \E t \in watch.tasks :
        /\ t.pc = "lock"
        /\ MutexFree(watch.mutex)
        /\ watch' = [watch EXCEPT
                !.tasks = (@ \ {t}) \cup {[t EXCEPT !.pc = "delete"]},
                !.mutex = StartHolds]
    /\ UNCHANGED <<store, producer, ac, obs, hook, mgr, owner>>

\* Mutant of delete: the entry stays.
deleteNothing(registry, secretName) == registry

\* delete(activeWatchers, w.secretName): the entry of the name is removed,
\* whatever watcher it holds.
delete(registry, secretName) == [registry EXCEPT ![secretName] = NoWatcher]

\* close(stopCh); delete(activeWatchers, w.secretName)
Start_Delete ==
    /\ \E t \in watch.tasks :
        /\ t.pc = "delete"
        /\ watch' = [watch EXCEPT
                !.tasks = (@ \ {t}) \cup {[t EXCEPT !.pc = "unlock"]},
                !.activeWatchers = delete(@, t.secretName)]
    /\ UNCHANGED <<store, producer, ac, obs, hook, mgr, owner>>

\* mutex.Unlock() in the deferred function, and the task has ended.
Start_Unlock ==
    /\ \E t \in watch.tasks :
        /\ t.pc = "unlock"
        /\ watch' = [watch EXCEPT
                !.tasks = (@ \ {t}) \cup {[t EXCEPT !.pc = "ended"]},
                !.mutex = ""]
    /\ UNCHANGED <<store, producer, ac, obs, hook, mgr, owner>>

----------------------------------------------------------------------------
(* manager.AreCredsChanged and manager.AddCredHashToPodTemplate: calls that *)
(* only read the store. A call is one step here: the secrets do not change  *)
(* while it runs.                                                            *)

\* A pod template's Annotations: a nil map, or a map from keys to values. A
\* value is a text somebody wrote, or a digest.
NilAnnotations == [isNil |-> TRUE, map |-> [k \in {} |-> ""]]

Text(t) == [text |-> t]

Annotations(map) == [isNil |-> FALSE, map |-> map]

\* The templates a call gets: no annotation map, an empty one, an annotation
\* of somebody else, and a checksum of an earlier call next to it.
Templates ==
    {NilAnnotations,
     Annotations([k \in {} |-> ""]),
     Annotations([k \in {"foo"} |-> Text("bar")]),
     Annotations([k \in {"foo", "checksum/secret0"} |-> Text("bar")])}

\* No call yet.
NoManagerCall ==
    [op |-> "", secretNames |-> <<>>, changed |-> FALSE, err |-> "nil",
     before |-> NilAnnotations, template |-> NilAnnotations]

\* The result of the Get request number k of a call in which the request
\* number failAt fails (none when failAt = 0).
GetResult(name, k, failAt) ==
    IF k = failAt THEN "StoreError"
    ELSE IF Exists(name) THEN "nil" ELSE "NotFound"

\* AreCredsChanged(secretNames) from the i-th name on: the result and the error.
RECURSIVE AreCredsChangedFrom(_, _, _)
AreCredsChangedFrom(secretNames, i, failAt) ==
    IF i > Len(secretNames) THEN [changed |-> FALSE, err |-> "nil"]
    ELSE
        LET secretName == secretNames[i]
            oldSecretName == GetOldSecretName(secretName)
            errNew == GetResult(secretName, 2 * i - 1, failAt)
            errOld == GetResult(oldSecretName, 2 * i, failAt)
        IN  IF errNew # "nil" THEN [changed |-> FALSE, err |-> errNew]
            ELSE IF errOld # "nil" THEN [changed |-> FALSE, err |-> errOld]
            ELSE IF AreFieldsChanged(store[oldSecretName], store[secretName])
                 THEN [changed |-> TRUE, err |-> "nil"]
            ELSE AreCredsChangedFrom(secretNames, i + 1, failAt)

AreCredsChanged ==
    /\ \E secretNames \in NameLists : \E failAt \in 0..(2 * Len(secretNames)) :
        LET r == AreCredsChangedFrom(secretNames, 1, failAt) IN
        mgr' = [NoManagerCall EXCEPT !.op = "AreCredsChanged",
                                     !.secretNames = secretNames,
                                     !.changed = r.changed, !.err = r.err]
    /\ UNCHANGED <<store, producer, ac, obs, hook, watch, owner>>

\* hash(o): the SHA-256 digest of the JSON of o, in hexadecimal. The digest is
\* kept symbolic: a value that stands for the digest of o.
hash(o) == [sha256 |-> o]

GetAnnotationName(id) == "checksum/secret" \o ToString(id)

\* Mutant of AddAnnotationsToPodTemplate: the map is replaced in every case.
AddAnnotationsToPodTemplateReplacing(template, annotations) ==
    Annotations(annotations)

\* AddAnnotationsToPodTemplate(template, annotations): the template afterwards.
AddAnnotationsToPodTemplate(template, annotations) ==
    IF template.isNil THEN Annotations(annotations)
    ELSE Annotations([key \in DOMAIN template.map \cup DOMAIN annotations |->
                        IF key \in DOMAIN annotations THEN annotations[key]
                        ELSE template.map[key]])

\* AddCredHashToPodTemplate(secretNames, template) from index i on (the code
\* counts from 0, a sequence from 1): the template afterwards and the error.
RECURSIVE AddCredHashFrom(_, _, _, _)
AddCredHashFrom(secretNames, template, i, failAt) ==
    IF i > Len(secretNames) THEN [template |-> template, err |-> "nil"]
    ELSE
        LET secretName == secretNames[i]
            err == GetResult(secretName, i, failAt)
            annotations == [key \in {GetAnnotationName(i - 1)} |->
                                hash(store[secretName].data)]
        IN  IF err # "nil" THEN [template |-> template, err |-> err]
            ELSE AddCredHashFrom(secretNames,
                                 AddAnnotationsToPodTemplate(template, annotations),
                                 i + 1, failAt)

AddCredHashToPodTemplate ==
    /\ \E secretNames \in NameLists, template \in Templates :
       \E failAt \in 0..Len(secretNames) :
        LET r == AddCredHashFrom(secretNames, template, 1, failAt) IN
        mgr' = [NoManagerCall EXCEPT !.op = "AddCredHashToPodTemplate",
                                     !.secretNames = secretNames,
                                     !.before = template, !.template = r.template,
                                     !.err = r.err]
    /\ UNCHANGED <<store, producer, ac, obs, hook, watch, owner>>

----------------------------------------------------------------------------
(* manager.SetOwnerRefForSecretCopies(secretNames, ownerRef), one store *)
(* request per step                                                      *)

\* The ownerRef arguments, abstracted to one string each.
OwnerRefs == {"operator-cr"}

\* No call yet.
NoOwnerCall ==
    [pc |-> "idle", secretNames |-> <<>>, ownerRef |-> "", i |-> 1,
     secret |-> EmptySecret, err |-> "nil", calls |-> 0]

\* secret.OwnerReferences = ownerRef
Owned(secret, ownerRef) == [secret EXCEPT !.owners = ownerRef]

\* return err, and the return nil after the last name.
OwnerReturn(o, e) ==
    [o EXCEPT !.pc = "idle", !.i = 1, !.secret = EmptySecret, !.err = e]

SetOwnerRefForSecretCopies ==
    /\ owner.pc = "idle"
    /\ Ops < MaxOps
    /\ HookSecrets # <<>>
    /\ \E ownerRef \in OwnerRefs :
        owner' = [NoOwnerCall EXCEPT !.pc = "get", !.secretNames = HookSecrets,
                                     !.ownerRef = ownerRef,
                                     !.calls = owner.calls + 1]
    /\ UNCHANGED <<store, producer, ac, obs, hook, watch, mgr>>

\* secret, err := getSecret(oldSecretName)
Owner_GetSecret ==
    /\ owner.pc = "get"
    /\ LET oldSecretName == GetOldSecretName(owner.secretNames[owner.i]) IN
       \E e \in GetOutcomes(oldSecretName) :
        owner' = IF e = "nil"
                 THEN [owner EXCEPT !.secret = store[oldSecretName], !.pc = "update"]
                 ELSE OwnerReturn(owner, e)
    /\ UNCHANGED <<store, producer, ac, obs, hook, watch, mgr>>

\* secret.OwnerReferences = ownerRef; err = updateSecret(secret); then the
\* next name, or return nil.
Owner_UpdateSecret ==
    /\ owner.pc = "update"
    /\ LET oldSecretName == GetOldSecretName(owner.secretNames[owner.i])
           obj == Owned(owner.secret, owner.ownerRef) IN
       \E e \in UpdateOutcomes(oldSecretName, obj) :
        IF e = "nil" THEN
            /\ Commit(oldSecretName, obj)
            /\ owner' = IF owner.i < Len(owner.secretNames)
                         THEN [owner EXCEPT !.i = @ + 1, !.pc = "get",
                                            !.secret = EmptySecret]
                         ELSE OwnerReturn(owner, "nil")
            /\ obs' = Foreign
        ELSE
            /\ owner' = OwnerReturn(owner, e)
            /\ UNCHANGED <<store, watch, obs>>
    /\ UNCHANGED <<producer, ac, hook, mgr>>

----------------------------------------------------------------------------
(* Initial states and the specification *)

LiveLabels == "app"

\* The live secret as its deployer or an earlier rotation left it, and the
\* shadow that an earlier hook run left (none when no hook has run yet).
SecretPairs ==
    {[live |-> EmptySecret, old |-> EmptySecret]}
    \cup
    {[live |-> [data |-> d, lock |-> "", labels |-> LiveLabels, owners |-> "", rv |-> 1],
      old |-> EmptySecret] : d \in DataMaps}
    \cup
    {[live |-> [data |-> d, lock |-> l, labels |-> LiveLabels, owners |-> "", rv |-> 1],
      old |-> [data |-> o, lock |-> "", labels |-> LiveLabels, owners |-> "", rv |-> 1]]
        : d \in DataMaps, o \in DataMaps, l \in {"true", "false"}}

\* The store in which every name has the live secret and the shadow of pairs.
StoreOf(pairs) ==
    [n \in ObjNames |->
        IF n \in Names THEN pairs[n].live
        ELSE pairs[CHOOSE m \in Names : GetOldSecretName(m) = n].old]

\* The stores of a deployment with the one secret "creds".
InitStores ==
    {StoreOf([n \in Names |-> IF n = "creds" THEN p ELSE [live |-> EmptySecret,
                                                          old |-> EmptySecret]])
        : p \in SecretPairs}

\* The stores of InitStores in which no rotation is under way: no shadow yet, or
\* the live secret unlocked and its shadow in step with it.
SettledStores ==
    {s \in InitStores :
        \A n \in {"creds"} :
            /\ Exists_(s, n)
            /\ \/ ~Exists_(s, GetOldSecretName(n))
               \/ s[n].lock = "false" /\ s[GetOldSecretName(n)].data = s[n].data}

\* The data maps that hold every field.
FullMaps == [Fields -> Values]

\* The stores of InitStores whose secrets hold every field.
FullStores ==
    {s \in InitStores : \A n \in ObjNames : Exists_(s, n) => s[n].data \in FullMaps}

\* watching: whether the operator has a watcher running for the secrets;
\* maps: the data maps the producer writes; secrets: the configured names.
InitWith(watching, stores, maps, secrets) ==
    /\ store \in stores
    /\ producer = [writes |-> 0, maps |-> maps]
    /\ ac = [pc |-> "idle", secretName |-> "creds", newSecret |-> EmptySecret,
             oldSecret |-> EmptySecret, secret |-> EmptySecret]
    /\ obs = [calls |-> 0, trace |-> <<>>, args |-> <<>>, changed |-> FALSE,
              start |-> NoStore, foreign |-> FALSE, prev |-> NoCall, err |-> "nil"]
    /\ hook = [pc |-> "idle", i |-> 1, newSecret |-> EmptySecret,
               isSecretExist |-> FALSE, runs |-> 0, secrets |-> secrets]
    /\ watch = [active |-> [n \in Names |-> watching],
                events |-> [n \in Names |-> <<>>],
                cache |-> [n \in Names |-> store[n]],
                reconciles |-> 0,
                log |-> <<>>,
                activeWatchers |->
                    [n \in Names |-> IF watching THEN [id |-> 1, reconcileFunc |-> "f"]
                                     ELSE NoWatcher],
                created |-> [n \in Names |-> IF watching THEN 1 ELSE 0],
                tasks |-> IF watching
                          THEN {[secretName |-> n,
                                 watcher |-> [id |-> 1, reconcileFunc |-> "f"],
                                 pc |-> "run"] : n \in Names}
                          ELSE {},
                mutex |-> "",
                calls |-> 0,
                callers |-> [c \in Callers |-> NoWatch]]
    /\ mgr = NoManagerCall
    /\ owner = NoOwnerCall

Next ==
    \/ ProducerUpdate
    \/ ActualizeCreds
    \/ AC_GetNewSecret
    \/ AC_GetOldSecret
    \/ AC_CreateOldSecret
    \/ AC_Migrate
    \/ AC_UpdateOldSecret
    \/ AC_UnlockGet
    \/ AC_UnlockUpdate
    \/ PrepareOldCreds
    \/ Hook_GetNewSecret
    \/ Hook_IsSecretExist
    \/ Hook_WriteOldSecret
    \/ Hook_LockSecret
    \/ Informer_Update
    \/ Informer_Relist

\* The operator with a running watcher, the hook and the producer, from a
\* settled secret.
Init == InitWith(TRUE, SettledStores, DataMaps, <<"creds">>)

Spec == Init /\ [][Next]_vars

\* The operator and the hook before any watcher is registered.
InitActualize == InitWith(FALSE, InitStores, DataMaps, <<"creds">>)

NextActualize ==
    \/ ProducerUpdate
    \/ ActualizeCreds
    \/ AC_GetNewSecret
    \/ AC_GetOldSecret
    \/ AC_CreateOldSecret
    \/ AC_Migrate
    \/ AC_UpdateOldSecret
    \/ AC_UnlockGet
    \/ AC_UnlockUpdate
    \/ PrepareOldCreds
    \/ Hook_GetNewSecret
    \/ Hook_IsSecretExist
    \/ Hook_WriteOldSecret
    \/ Hook_LockSecret

SpecActualize == InitActualize /\ [][NextActualize]_vars

\* The same, with a producer that changes the values of the fields only:
\* every secret holds every field, so that no field is ever added or removed.
InitValuesOnly == InitWith(FALSE, FullStores, FullMaps, <<"creds">>)

SpecValuesOnly == InitValuesOnly /\ [][NextActualize]_vars

\* The operator with a running watcher, the hook and a producer that changes
\* the values of the fields only.
InitWatchedValuesOnly ==
    InitWith(TRUE, SettledStores \cap FullStores, FullMaps, <<"creds">>)

SpecWatchedValuesOnly == InitWatchedValuesOnly /\ [][Next]_vars

\* One rotation: the hook has locked the secret and snapshotted it (so the
\* shadow exists), the producer changes the data until the operator's first
\* call of ActualizeCreds, and the operator calls again after every call that
\* failed.
InitRotation ==
    InitWith(FALSE, {s \in InitStores :
                        /\ s["creds"].lock = "true"
                        /\ Exists_(s, "creds-old")
                        /\ s["creds-old"].data = s["creds"].data},
             DataMaps, <<"creds">>)

\* The producer writes before the operator's first call only.
ProducerUpdate_BeforeCalls == ProducerUpdate /\ obs.calls = 0

NextRotation ==
    \/ ProducerUpdate_BeforeCalls
    \/ ActualizeCreds
    \/ ActualizeCreds_Retry
    \/ AC_GetNewSecret
    \/ AC_GetOldSecret
    \/ AC_Migrate
    \/ AC_UpdateOldSecret
    \/ AC_UnlockGet
    \/ AC_UnlockUpdate

\* The first call is made, a failed call is retried, and a store request or a
\* migration that is tried again and again succeeds in the end.
FairRotation ==
    /\ WF_vars(ActualizeCreds)
    /\ WF_vars(ActualizeCreds_Retry)
    /\ SF_vars(AC_GetNewSecret /\ ac'.pc = "getOld")
    /\ SF_vars(AC_GetOldSecret /\ ac'.pc # "idle")
    /\ SF_vars(AC_Migrate /\ ac'.pc = "updateOld")
    /\ SF_vars(AC_UpdateOldSecret /\ ac'.pc = "unlockGet")
    /\ SF_vars(AC_UnlockGet /\ ac'.pc = "unlockUpdate")
    /\ SF_vars(AC_UnlockUpdate /\ obs'.err = "nil")

SpecRotation == InitRotation /\ [][NextRotation]_vars /\ FairRotation

\* The goroutines of the operator that register watchers, and the watcher
\* tasks, over a secret that the producer rewrites.
InitWatch ==
    InitWith(FALSE, {s \in SettledStores \cap FullStores : Exists_(s, "creds-old")},
             FullMaps, <<"creds">>)

NextWatch ==
    \/ \E c \in Callers : Watch(c)
    \/ \E c \in Callers : Watch_Lock(c)
    \/ \E c \in Callers : Watch_Lookup(c)
    \/ \E c \in Callers : Watch_Register(c)
    \/ \E c \in Callers : Watch_Start(c)
    \/ \E c \in Callers : Watch_Unlock(c)
    \/ Start_Run

SpecWatch == InitWatch /\ [][NextWatch]_vars

\* One goroutine that registers watchers, and watcher tasks whose informer
\* stops.
NextStop ==
    \/ Watch("c1")
    \/ Watch_Lock("c1")
    \/ Watch_Lookup("c1")
    \/ Watch_Register("c1")
    \/ Watch_Start("c1")
    \/ Watch_Unlock("c1")
    \/ Start_Run
    \/ Start_RunReturns
    \/ Start_Lock
    \/ Start_Delete
    \/ Start_Unlock

InitStop ==
    InitWith(FALSE, {s \in SettledStores \cap FullStores :
                        /\ Exists_(s, "creds-old")
                        /\ s["creds"].data["password"] = "p1"},
             FullMaps, <<"creds">>)

SpecStop == InitStop /\ [][NextStop]_vars

\* The stores of a deployment with the two secrets "creds" and "token".
PairStores == {StoreOf(pairs) : pairs \in [Names -> SecretPairs]}

\* The pre-deploy hook over two secrets, while the producer rewrites them.
InitHook == InitWith(FALSE, PairStores, DataMaps, <<"creds", "token">>)

NextHook ==
    \/ ProducerUpdate
    \/ PrepareOldCreds
    \/ Hook_GetNewSecret
    \/ Hook_IsSecretExist
    \/ Hook_WriteOldSecret
    \/ Hook_LockSecret

SpecHook == InitHook /\ [][NextHook]_vars

\* The operator and the hook before any watcher is registered, values
\* only, and the operator's SetOwnerRefForSecretCopies.
NextOwner ==
    \/ NextActualize
    \/ SetOwnerRefForSecretCopies
    \/ Owner_GetSecret
    \/ Owner_UpdateSecret

SpecOwner == InitValuesOnly /\ [][NextOwner]_vars

\* The operator's calls that only read, over two secrets.
InitManager == InitWith(FALSE, PairStores, DataMaps, <<"creds", "token">>)

NextManager ==
    \/ AreCredsChanged
    \/ AddCredHashToPodTemplate

SpecManager == InitManager /\ [][NextManager]_vars

----------------------------------------------------------------------------
(* The claims. Live and Shadow are the secrets of the ActualizeCreds call. *)

Live == ac.secretName

Shadow == GetOldSecretName(ac.secretName)

\* A call of ActualizeCreds has started and nobody else has written since.
Undisturbed == obs.calls > 0 /\ ~obs.foreign

\* The call has ended.
Ended == ac.pc = "idle" /\ obs.calls > 0

MigrateOk == Did("migrate", "nil")

UpdateShadowOk == Did("updateShadow", "nil")

\* C1: in a call of ActualizeCreds that finds the shadow's data changed, the
\* callback and the writes come in the order migrate, shadow update, unlock
\* write: migrate is the first of them, the shadow is written only right after
\* migrate returned nil, and "false" is written to the lock annotation only
\* right after the shadow update succeeded.
C1_MigrateShadowUnlockInOrder ==
    obs.changed =>
        \A i \in DOMAIN obs.trace :
            /\ obs.trace[i].op \in {"migrate", "updateShadow", "unlock"}
            /\ obs.trace[i].op = "migrate" => i = 1
            /\ obs.trace[i].op = "updateShadow" => i = 2 /\ obs.trace[1] = MigrateOk
            /\ obs.trace[i].op = "unlock" => i = 3 /\ obs.trace[2] = UpdateShadowOk

C1_Witness ==
    /\ obs.changed
    /\ obs.trace = <<MigrateOk, UpdateShadowOk, Did("unlock", "nil")>>
    /\ store[Live].lock = "false"

\* C2: when changeCredsFunc returns an error the call ends with that error and
\* has written nothing (the store is as it was when the call started, unless
\* somebody else wrote); the next call on the same store does not end without
\* calling changeCredsFunc again, unless a Get of the store fails.
C2_FailedMigrateLeavesStore ==
    /\ (obs.trace # <<>> /\ obs.trace[Len(obs.trace)].err = "MigrationError") =>
          /\ Ended
          /\ obs.err = "MigrationError"
          /\ Len(obs.trace) = 1
          /\ ~obs.foreign => store = obs.start
    /\ obs.prev.err = "MigrationError" =>
          /\ ac.pc \in {"idle", "getNew", "getOld", "migrate", "updateOld",
                        "unlockGet", "unlockUpdate"}
          /\ ac.pc \in {"updateOld", "unlockGet", "unlockUpdate"} =>
                obs.trace # <<>> /\ obs.trace[1].op = "migrate"
          /\ ac.pc = "idle" =>
                \/ obs.trace # <<>> /\ obs.trace[1].op = "migrate"
                \/ obs.trace = <<>> /\ obs.err = "StoreError"

C2_Witness ==
    /\ obs.prev.err = "MigrationError"
    /\ Ended
    /\ obs.err = "MigrationError"
    /\ obs.trace = <<Did("migrate", "MigrationError")>>
    /\ store = obs.start

\* C3 (as claimed): an undisturbed call that starts with a shadow whose data
\* differs from the live data, and in which every store request succeeds, calls
\* changeCredsFunc exactly once, with the live secret and the shadow as they
\* were; when it returns nil the shadow's data equals the live data and the
\* lock annotation is "false".
C3_Claim ==
    (/\ Ended
     /\ Undisturbed
     /\ obs.err \in {"nil", "MigrationError"}
     /\ Exists_(obs.start, Shadow)
     /\ obs.start[Shadow].data # obs.start[Live].data)
    => /\ obs.args = <<<<obs.start[Live], obs.start[Shadow]>>>>
       /\ obs.err = "nil" =>
            /\ store[Shadow].data = store[Live].data
            /\ store[Live].lock = "false"

\* C4 (as claimed): after an undisturbed call that returned nil the shadow's
\* data equals the live data as a whole map.
C4_Claim ==
    (Ended /\ Undisturbed /\ obs.err = "nil") =>
        store[Shadow].data = store[Live].data

\* C5: an undisturbed call that starts with a live secret and no shadow never
\* calls changeCredsFunc and never updates a shadow, it ends with nil unless a
\* store request fails, and once its Create succeeded the shadow <name>-old
\* exists with the live secret's data.
C5_FirstCallSeedsShadow ==
    (/\ Undisturbed
     /\ Exists_(obs.start, Live)
     /\ ~Exists_(obs.start, Shadow))
    => /\ ac.pc \notin {"migrate", "updateOld"}
       /\ obs.args = <<>>
       /\ \A i \in DOMAIN obs.trace : obs.trace[i].op \in {"createShadow", "unlock"}
       /\ obs.err \in {"nil", "StoreError"}
       /\ (obs.trace # <<>> /\ obs.trace[1] = Did("createShadow", "nil")) =>
            /\ Exists(Shadow)
            /\ store[Shadow].data = obs.start[Live].data
       /\ (Ended /\ obs.err = "nil") =>
            /\ obs.trace = <<Did("createShadow", "nil"), Did("unlock", "nil")>>
            /\ store[Shadow].data = store[Live].data

C5_Witness ==
    /\ Ended
    /\ Undisturbed
    /\ ~Exists_(obs.start, Shadow)
    /\ obs.err = "nil"
    /\ Exists(Shadow)
    /\ store[Shadow].data = store[Live].data
    /\ DOMAIN store[Live].data # {}
    /\ obs.args = <<>>

\* C6: an undisturbed call that starts with a shadow whose data equals the live
\* data never calls changeCredsFunc and leaves the shadow alone, it ends with
\* nil unless a store request fails, and when it ends with nil the live secret
\* carries "false" in its lock annotation and is otherwise as it was.
C6_NoChangeOnlyUnlocks ==
    (/\ Undisturbed
     /\ Exists_(obs.start, Live)
     /\ Exists_(obs.start, Shadow)
     /\ obs.start[Shadow].data = obs.start[Live].data)
    => /\ ac.pc \notin {"migrate", "updateOld", "createOld"}
       /\ obs.args = <<>>
       /\ \A i \in DOMAIN obs.trace : obs.trace[i].op = "unlock"
       /\ obs.err \in {"nil", "StoreError"}
       /\ store[Shadow] = obs.start[Shadow]
       /\ (Ended /\ obs.err = "nil") =>
            /\ store[Live].lock = "false"
            /\ [store[Live] EXCEPT !.rv = 0] =
                   [obs.start[Live] EXCEPT !.lock = "false", !.rv = 0]

C6_Witness ==
    /\ Ended
    /\ Undisturbed
    /\ Exists_(obs.start, Shadow)
    /\ obs.start[Shadow].data = obs.start[Live].data
    /\ obs.start[Live].lock = "true"
    /\ obs.err = "nil"
    /\ store[Live].lock = "false"
    /\ obs.args = <<>>

\* The trace of a call whose unlock write failed after migrate and the shadow
\* update succeeded.
UnlockFailed(trace) ==
    /\ Len(trace) = 3
    /\ trace[1] = MigrateOk
    /\ trace[2] = UpdateShadowOk
    /\ trace[3].op = "unlock"
    /\ trace[3].err # "nil"

\* C7: when the unlock write fails after migrate and the shadow update
\* succeeded, the call ends with the error of the unlock write, the shadow
\* keeps the new data and the live secret is as it was (still locked); the next
\* call on the same store finds nothing changed, does not call changeCredsFunc
\* and writes nothing but the lock annotation.
C7_UnlockFailureKeepsShadow ==
    /\ UnlockFailed(obs.trace) =>
          /\ Ended
          /\ obs.err = obs.trace[3].err
          /\ ~obs.foreign =>
                /\ store[Shadow].data = obs.start[Live].data
                /\ store[Live] = obs.start[Live]
    /\ UnlockFailed(obs.prev.trace) =>
          /\ ~obs.changed
          /\ ac.pc \notin {"migrate", "updateOld", "createOld"}
          /\ obs.args = <<>>
          /\ \A i \in DOMAIN obs.trace : obs.trace[i].op = "unlock"

C7_Witness ==
    /\ UnlockFailed(obs.prev.trace)
    /\ Ended
    /\ obs.err = "nil"
    /\ obs.trace = <<Did("unlock", "nil")>>
    /\ obs.start[Live].lock = "true"
    /\ store[Live].lock = "false"
    /\ store[Shadow].data = store[Live].data

\* C8 (as claimed): whenever a write takes the lock annotation of a live secret
\* from "true" to "false", the shadow's data equals the live secret's data at
\* that moment.
C8_Claim ==
    [][\A n \in Names :
        (store[n].lock = "true" /\ store'[n].lock = "false") =>
            store'[GetOldSecretName(n)].data = store'[n].data]_vars

\* C9 (as claimed): reconcileFunc is never called for a secret while its lock
\* annotation is "true" in the store.
C9_Claim ==
    [][\A n \in Names :
        (watch'.events[n] # watch.events[n] /\ watch'.reconciles # watch.reconciles)
            => store[n].lock # "true"]_vars

\* C10: the handler does not call reconcileFunc for an update event whose new
\* object is locked, nor for one whose old object is locked (the unlock
\* transition), whatever the data of the two objects; so reconcileFunc is not
\* called for any event of a run unlocked, locked, data changed while locked,
\* unlocked.
C10_LockedEventsSuppressed ==
    /\ \A i \in DOMAIN watch.log :
        (watch.log[i].newObj.lock = "true" \/ watch.log[i].oldObj.lock = "true")
            => ~watch.log[i].fired
    /\ watch.reconciles = Cardinality({i \in DOMAIN watch.log : watch.log[i].fired})

\* The unlock transition with other data than before the lock was handled, after
\* the lock event and a change of the data while locked, and reconcileFunc has
\* not been called at all.
C10_Witness ==
    /\ watch.reconciles = 0
    /\ Len(watch.log) = 3
    /\ watch.log[1].oldObj.lock # "true" /\ watch.log[1].newObj.lock = "true"
    /\ watch.log[2].oldObj.lock = "true" /\ watch.log[2].newObj.lock = "true"
    /\ AreFieldsChanged(watch.log[2].oldObj, watch.log[2].newObj)
    /\ watch.log[3].oldObj.lock = "true" /\ watch.log[3].newObj.lock = "false"
    /\ AreFieldsChanged(watch.log[1].oldObj, watch.log[3].newObj)

\* C11 (as claimed): for every update event whose old and new object are both
\* unlocked, the handler calls reconcileFunc, once, exactly when the data maps
\* of the two objects differ (a changed value, an added or a removed field).
C11_Claim ==
    /\ \A i \in DOMAIN watch.log :
        (watch.log[i].newObj.lock # "true" /\ watch.log[i].oldObj.lock # "true")
            => (watch.log[i].fired <=>
                    watch.log[i].oldObj.data # watch.log[i].newObj.data)
    /\ watch.reconciles = Cardinality({i \in DOMAIN watch.log : watch.log[i].fired})

\* The names of a secretNames argument.
NamesOf(secretNames) == {secretNames[i] : i \in DOMAIN secretNames}

\* The tasks that were started for the watchers of a name.
TasksOf(n) == {t \in watch.tasks : t.secretName = n}

\* The Watch call of caller c has returned.
WatchReturned(c) == watch.callers[c].pc = "idle" /\ watch.callers[c].returned

\* At most one watcher was ever made and at most one task started for a name,
\* the task is the one of the registered watcher, and a call that found all its
\* names registered returned nil.
RegistryIdempotent ==
    /\ \A n \in Names :
        /\ watch.created[n] <= 1
        /\ Cardinality(TasksOf(n)) <= 1
        /\ \A t \in TasksOf(n) : watch.activeWatchers[n] = t.watcher
    /\ \A c \in Callers :
        (WatchReturned(c) /\ NamesOf(watch.callers[c].secretNames) \subseteq
                                 watch.callers[c].entry)
            => watch.callers[c].err = "nil"

\* C12: under every interleaving of concurrent Watch calls there is at most one
\* registered watcher and at most one watcher task for a name, a Watch call
\* for names that are all registered returns nil and makes no watcher, and the
\* registered watcher of a name (with its callback) is never replaced.
C12_RegistrationIdempotent ==
    [][/\ RegistryIdempotent'
       /\ \A n \in Names :
            watch.activeWatchers[n] # NoWatcher =>
                watch'.activeWatchers[n] = watch.activeWatchers[n]]_vars

\* Both callers have registered "creds", with different callbacks; both calls
\* returned nil, and the one watcher that runs has the callback of the first.
C12_Witness ==
    /\ \A c \in Callers :
        /\ WatchReturned(c)
        /\ watch.callers[c].err = "nil"
        /\ "creds" \in NamesOf(watch.callers[c].secretNames)
    /\ watch.callers["c1"].reconcileFunc = "g"
    /\ watch.callers["c2"].reconcileFunc = "f"
    /\ watch.callers["c1"].entry = {"creds"}
    /\ watch.activeWatchers["creds"] = [id |-> 1, reconcileFunc |-> "f"]
    /\ TasksOf("creds") = {[secretName |-> "creds", pc |-> "run",
                            watcher |-> [id |-> 1, reconcileFunc |-> "f"]]}

\* C13 (as claimed): every Watch call with a nil reconcileFunc returns an
\* error, whatever its list of names, and no watcher without a callback is
\* registered or started.
C13_Claim ==
    /\ \A c \in Callers :
        (WatchReturned(c) /\ watch.callers[c].reconcileFunc = "nil")
            => watch.callers[c].err # "nil"
    /\ \A n \in Names :
        watch.activeWatchers[n] # NoWatcher =>
            watch.activeWatchers[n].reconcileFunc # "nil"
    /\ \A t \in watch.tasks : t.watcher.reconcileFunc # "nil"

\* The name the hook's run is at.
HookName == HookSecrets[hook.i]

\* The names the run has left behind are locked or do not exist.
HookLeftLocked ==
    hook.pc # "idle" =>
        \A j \in 1..(hook.i - 1) :
            ~Exists(HookSecrets[j]) \/ store[HookSecrets[j]].lock = "true"

\* C14: a run of PrepareOldCreds, undisturbed but for the producer, goes past a
\* name whose live secret is locked or does not exist without a write and on to
\* the next name; it goes on to the shadow only for a live secret that exists
\* and is unlocked, and when its lock write is committed (a failed store
\* request ends the run) the shadow has the live secret's data and labels and
\* the live secret has "true" in its lock annotation and is otherwise as it
\* was; it leaves no name behind unlocked.
C14_HookSkipsOrLocks ==
    [][/\ (hook.pc = "get" /\ hook' # hook
                /\ (~Exists(HookName) \/ store[HookName].lock = "true"))
            => /\ store' = store
               /\ hook'.pc \in {"get", "idle"}
               /\ hook.i < Len(HookSecrets) =>
                      (hook'.pc = "idle" \/ hook'.i = hook.i + 1)
       /\ (hook.pc = "get" /\ hook'.pc = "exist")
            => Exists(HookName) /\ store[HookName].lock # "true"
       /\ (hook.pc = "lock" /\ store'[HookName] # store[HookName] /\ hook' # hook)
            => /\ store'[HookName] =
                      [store[HookName] EXCEPT !.lock = "true", !.rv = @ + 1]
               /\ Exists_(store', GetOldSecretName(HookName))
               /\ store'[GetOldSecretName(HookName)].data = store'[HookName].data
               /\ store'[GetOldSecretName(HookName)].labels = store'[HookName].labels
               /\ \A n \in Names \ {HookName} : store'[n] = store[n]
       /\ HookLeftLocked']_vars

\* One run has gone past "creds", which was locked (its shadow still differs),
\* and has given "token" a shadow and locked it.
C14_Witness ==
    /\ hook.pc = "idle" /\ hook.runs = 1 /\ producer.writes = 0
    /\ store["creds"].lock = "true" /\ store["creds"].rv = 1
    /\ store["creds-old"].rv = 1
    /\ store["creds-old"].data # store["creds"].data
    /\ store["token"].lock = "true" /\ store["token"].rv = 2
    /\ store["token-old"].rv = 1
    /\ store["token-old"].data = store["token"].data
    /\ DOMAIN store["token"].data # {}

\* C15 (as claimed): a call of AreCredsChanged whose named secrets and shadows
\* all exist, and whose store requests succeed, returns true exactly when the
\* data of one of the named secrets differs from the data of its shadow; and a
\* call leaves the store as it is.
C15_Claim ==
    [][(mgr' # mgr /\ mgr'.op = "AreCredsChanged") =>
        /\ store' = store
        /\ ((\A n \in NamesOf(mgr'.secretNames) :
                    Exists(n) /\ Exists(GetOldSecretName(n)))
               /\ mgr'.err = "nil")
            => (mgr'.changed <=>
                    \E n \in NamesOf(mgr'.secretNames) :
                        store[n].data # store[GetOldSecretName(n)].data)]_vars

\* The annotation keys a call with these names writes.
ChecksumKeys(secretNames) == {GetAnnotationName(i - 1) : i \in DOMAIN secretNames}

\* C17: after a call of AddCredHashToPodTemplate that returned nil, the
\* template's annotation checksum/secret<i> is the hash of the data of the
\* i-th name (counted from 0), for every i, and every annotation the template
\* had under another key is still there with its value, also when the
\* template had no annotation map.
C17_ChecksumsAddedOthersKept ==
    (mgr.op = "AddCredHashToPodTemplate" /\ mgr.err = "nil") =>
        /\ \A i \in DOMAIN mgr.secretNames :
            /\ ~mgr.template.isNil
            /\ GetAnnotationName(i - 1) \in DOMAIN mgr.template.map
            /\ mgr.template.map[GetAnnotationName(i - 1)] =
                   hash(store[mgr.secretNames[i]].data)
        /\ \A key \in DOMAIN mgr.before.map \ ChecksumKeys(mgr.secretNames) :
            /\ key \in DOMAIN mgr.template.map
            /\ mgr.template.map[key] = mgr.before.map[key]
        /\ DOMAIN mgr.template.map =
               DOMAIN mgr.before.map \cup ChecksumKeys(mgr.secretNames)

\* A call for two secrets with different data on a template that had an
\* annotation of somebody else and a checksum of an earlier call.
C17_Witness ==
    /\ mgr.op = "AddCredHashToPodTemplate" /\ mgr.err = "nil"
    /\ mgr.secretNames = <<"creds", "token">>
    /\ store["creds"].data # store["token"].data
    /\ mgr.before = Annotations([k \in {"foo", "checksum/secret0"} |-> Text("bar")])
    /\ mgr.template.map["foo"] = Text("bar")
    /\ mgr.template.map["checksum/secret0"] = hash(store["creds"].data)
    /\ mgr.template.map["checksum/secret1"] = hash(store["token"].data)

\* C18 (as claimed): the hook writes the shadow before it writes the lock, and
\* whenever its write of "true" to the lock annotation of a live secret is
\* committed, the shadow's data equals the live secret's data, whatever the
\* producer and ActualizeCreds do in between.
C18_Claim ==
    [][/\ hook'.pc = "lock" => hook.pc \in {"writeOld", "lock"}
       /\ (hook.pc = "lock" /\ hook' # hook /\ store'[HookName] # store[HookName])
            => /\ store'[HookName].lock = "true"
               /\ store'[GetOldSecretName(HookName)].data = store'[HookName].data]_vars

\* C19: when the Get of the live secret fails (not-found included), or the Get
\* of the shadow fails with another error than not-found, the call ends there
\* with that error, it has not called changeCredsFunc and has written nothing:
\* the store, the lock annotation with it, is as it was when the call started,
\* unless somebody else wrote.
C19_FetchErrorEndsCall ==
    [][/\ (ac.pc = "getNew" /\ ac' # ac /\ ac'.pc # "getOld")
            => /\ ac'.pc = "idle"
               /\ obs'.err \in GetOutcomes(Live) \ {"nil"}
               /\ obs'.trace = <<>> /\ obs'.args = <<>>
               /\ store' = store
               /\ ~obs'.foreign => store' = obs'.start
       /\ (ac.pc = "getOld" /\ ac' # ac /\ ac'.pc \notin {"createOld", "migrate", "unlockGet"})
            => /\ ac'.pc = "idle"
               /\ obs'.err = "StoreError"
               /\ obs'.trace = <<>> /\ obs'.args = <<>>
               /\ store' = store
               /\ ~obs'.foreign => store' = obs'.start
       /\ (ac.pc = "getOld" /\ ac'.pc = "createOld") => ~Exists(Shadow)]_vars

\* A call on a locked secret whose shadow differs has ended with the error of
\* a Get; the secret is still locked and nothing was written or migrated.
C19_Witness ==
    /\ Ended
    /\ Undisturbed
    /\ obs.err = "StoreError"
    /\ obs.trace = <<>>
    /\ obs.start[Live].lock = "true"
    /\ AreFieldsChanged(obs.start[Shadow], obs.start[Live])
    /\ store = obs.start

\* C20: a write to a live secret by the hook or by ActualizeCreds changes its
\* lock annotation and nothing else (the data stays as the store has it, also
\* when the producer changed it after the operation read the secret, and the
\* secret stays): the hook's write sets "true", the write of ActualizeCreds
\* sets "false", and no other write of the system takes the annotation to
\* "false".
C20_OnlyLockWritten ==
    [][\A n \in Names :
        (store'[n] # store[n] /\ producer' = producer) =>
            /\ Exists(n) /\ Exists_(store', n)
            /\ store'[n] = [store[n] EXCEPT !.lock = store'[n].lock, !.rv = @ + 1]
            /\ hook' # hook => store'[n].lock = "true"
            /\ ac' # ac => store'[n].lock = "false"
            /\ store'[n].lock = "false" => (ac.pc = "unlockUpdate" /\ ac' # ac)]_vars

\* The producer changed the data between the read and the write of
\* unlockSecret: the write was refused and the new data is in the store.
C20_Witness ==
    /\ Ended
    /\ obs.trace # <<>>
    /\ obs.trace[Len(obs.trace)] = Did("unlock", "Conflict")
    /\ obs.err = "Conflict"
    /\ producer.writes = 1
    /\ hook.runs = 0
    /\ store[Live].rv = 2

\* The tasks of a name that have not ended.
LiveTasks(n) == {t \in TasksOf(n) : t.pc # "ended"}

\* A Watch call has registered a watcher for the name and is about to start
\* its task.
Pending(n) ==
    \E c \in Callers :
        /\ watch.callers[c].pc = "start"
        /\ watch.callers[c].secretNames[watch.callers[c].i] = n

\* A name has an entry exactly when a watcher was registered for it whose task
\* has not ended; the one exception is the task that has removed its entry and
\* still holds the mutex, which nobody who takes the mutex can see. The entry
\* is the watcher of the task, and a name has one such task at most.
RegistryMatchesTasks ==
    \A n \in Names :
        /\ n \in Registered <=>
                (Pending(n) \/ \E t \in LiveTasks(n) : t.pc # "unlock")
        /\ \A t \in LiveTasks(n) :
            /\ t.pc \in {"delete", "unlock"} => watch.mutex = StartHolds
            /\ t.pc # "unlock" => watch.activeWatchers[n] = t.watcher
        /\ Cardinality(LiveTasks(n)) <= 1

\* C21: the deferred function of Start removes the entry of its watcher while
\* it holds the mutex, so that in every state that a holder of the mutex can
\* see a name is in activeWatchers exactly when a watcher was registered for
\* it and its task has not ended; and a Watch call (with a reconcileFunc) that
\* comes to a name whose tasks have all ended makes a new watcher, registers
\* it and starts its task.
C21_EndedTaskIsDeregistered ==
    [][/\ RegistryMatchesTasks'
       /\ \A c \in Callers :
            LET w == watch.callers[c] IN
            (/\ w.pc = "loop" /\ watch'.callers[c] # w
             /\ w.i <= Len(w.secretNames)
             /\ w.reconcileFunc # "nil"
             /\ TasksOf(w.secretNames[w.i]) # {}
             /\ LiveTasks(w.secretNames[w.i]) = {})
            => /\ watch'.callers[c].pc = "register"
               /\ watch'.callers[c].watcher =
                      [id |-> watch.created[w.secretNames[w.i]] + 1,
                       reconcileFunc |-> w.reconcileFunc]
       /\ \A c \in Callers :
            LET w == watch.callers[c] IN
            (w.pc = "register" /\ watch'.callers[c] # w)
                => watch'.activeWatchers[w.secretNames[w.i]] = w.watcher
       /\ \A c \in Callers :
            LET w == watch.callers[c] IN
            (w.pc = "start" /\ watch'.callers[c] # w)
                => \E t \in watch'.tasks \ watch.tasks :
                        /\ t.secretName = w.secretNames[w.i]
                        /\ t.watcher = w.watcher
                        /\ t.pc = "start"]_vars

\* The task of the first watcher of "creds" has ended, and a later Watch call
\* for "creds" has registered a second watcher, whose task runs.
C21_Witness ==
    /\ TasksOf("creds") =
            {[secretName |-> "creds", pc |-> "ended",
              watcher |-> [id |-> 1, reconcileFunc |-> "f"]],
             [secretName |-> "creds", pc |-> "run",
              watcher |-> [id |-> 2, reconcileFunc |-> "g"]]}
    /\ watch.activeWatchers["creds"] = [id |-> 2, reconcileFunc |-> "g"]
    /\ WatchReturned("c1") /\ watch.callers["c1"].err = "nil"
    /\ watch.mutex = ""

\* The trace of a call whose shadow update failed after migrate succeeded.
ShadowWriteFailed(trace) ==
    /\ Len(trace) >= 2
    /\ trace[1] = MigrateOk
    /\ trace[2].op = "updateShadow"
    /\ trace[2].err # "nil"

\* C22: when the shadow update fails after migrate succeeded, the call ends
\* with the error of the update and without a write to the lock annotation,
\* and the store is as it was when the call started (the shadow keeps its
\* data, the live secret its lock), unless somebody else wrote; the next call
\* on the same store finds the change again and calls changeCredsFunc again,
\* unless a Get of the store fails.
C22_FailedShadowWriteIsRetried ==
    /\ ShadowWriteFailed(obs.trace) =>
          /\ Ended
          /\ obs.err = obs.trace[2].err
          /\ Len(obs.trace) = 2
          /\ ~obs.foreign => store = obs.start
    /\ ShadowWriteFailed(obs.prev.trace) =>
          /\ ac.pc \in {"idle", "getNew", "getOld", "migrate", "updateOld",
                        "unlockGet", "unlockUpdate"}
          /\ ac.pc \in {"migrate", "updateOld", "unlockGet", "unlockUpdate"} =>
                obs.changed
          /\ ac.pc \in {"updateOld", "unlockGet", "unlockUpdate"} =>
                obs.trace # <<>> /\ obs.trace[1].op = "migrate"
          /\ ac.pc = "idle" =>
                \/ obs.trace # <<>> /\ obs.trace[1].op = "migrate"
                \/ obs.trace = <<>> /\ obs.err = "StoreError"

\* The shadow update of a call on a locked secret failed after migrate; the
\* next call has migrated again, updated the shadow and unlocked.
C22_Witness ==
    /\ ShadowWriteFailed(obs.prev.trace)
    /\ obs.prev.err = "StoreError"
    /\ Ended
    /\ obs.err = "nil"
    /\ obs.trace = <<MigrateOk, UpdateShadowOk, Did("unlock", "nil")>>
    /\ obs.start[Live].lock = "true"
    /\ obs.start[Shadow].data # obs.start[Live].data
    /\ store[Live].lock = "false"
    /\ store[Shadow].data = store[Live].data

\* Nothing is under way for the secret: no run of the hook, no call of
\* ActualizeCreds, no update event that its watcher has not handled, and the
\* live secret is unlocked.
Quiescent(n) ==
    /\ hook.pc = "idle"
    /\ ac.pc = "idle"
    /\ watch.events[n] = <<>>
    /\ Exists(n)
    /\ store[n].lock # "true"

\* The last event handled that carried a change of the data, 0 when none did.
LastChange ==
    LET changes == {i \in DOMAIN watch.log :
                        watch.log[i].oldObj.data # watch.log[i].newObj.data}
    IN  IF changes = {} THEN 0
        ELSE CHOOSE i \in changes : \A j \in changes : j <= i

\* reconcileFunc was called for the last change of the data or after it.
ReconciledSinceLastChange ==
    \E i \in DOMAIN watch.log : i >= LastChange /\ watch.log[i].fired

\* C23 (as claimed): in every quiescent state of a secret that has a shadow
\* and a watcher, the shadow's data equals the live data or reconcileFunc was
\* called after the last change of the live data, whatever the producer did
\* while the secret was locked and while a call of ActualizeCreds was between
\* its read of the live secret and its unlock write.
C23_Claim ==
    \A n \in GetSecretNames :
        (Quiescent(n) /\ watch.active[n] /\ Exists(GetOldSecretName(n)))
            => \/ store[GetOldSecretName(n)].data = store[n].data
               \/ ReconciledSinceLastChange

\* The rotation of the secret is over: the live secret is unlocked, the
\* shadow has its data, and no call is at changeCredsFunc or past it.
RotationSettled ==
    /\ store[Live].lock = "false"
    /\ store[Shadow].data = store[Live].data
    /\ ac.pc \notin {"migrate", "updateOld"}

\* C24 (as claimed): once the hook has locked the secret, the producer has
\* changed its data (changed, added or removed fields) and stopped, and the
\* operator calls ActualizeCreds, again after every failure, with store
\* requests and migrations that succeed in the end, the rotation settles: from
\* some moment on the live secret is unlocked, the shadow's data equals the
\* live data, and no call of ActualizeCreds calls changeCredsFunc.
C24_Claim == (obs.calls > 0) ~> []RotationSettled

\* C25 (as claimed): a write of ActualizeCreds or of PrepareOldCreds to a
\* shadow that exists leaves the owner references of the shadow as they are,
\* so that the owner references set by SetOwnerRefForSecretCopies stay.
C25_Claim ==
    [][\A n \in Names :
        LET oldSecretName == GetOldSecretName(n) IN
        (/\ Exists(oldSecretName)
         /\ store'[oldSecretName] # store[oldSecretName]
         /\ (ac' # ac \/ hook' # hook))
        => store'[oldSecretName].owners = store[oldSecretName].owners]_vars

====
